---- MODULE Spec2Model ----
(***************************************************************************)
(* The job store of craigh007/seek and the operations that decide what is  *)
(* "the same job": JobDatabase.insert_or_update_job (the online upsert),   *)
(* remove_duplicates (the batch sweep of find_true_duplicates.py and of    *)
(* remove_duplicates_simple.py) and get_region (the region lookup).        *)
(*                                                                         *)
(* Text values are TLA+ strings, cut and joined with SubSeq, Len and \o.   *)
(* Python's None and SQL's NULL are the one value None.  Timestamps are    *)
(* integers: datetime.utcnow() is read once per operation from the clock   *)
(* `now`, which moves forward between operations.                          *)
(***************************************************************************)
EXTENDS Integers, Sequences, FiniteSets, TLC

VARIABLES
  jobs,    \* the rows of table "jobs"
  nextId,  \* the next id the store assigns on insert (never reused)
  now,     \* the clock read by datetime.utcnow()
  last     \* what the last operation was called with, returned and reported

vars == <<jobs, nextId, now, last>>

-----------------------------------------------------------------------------
(* Bounds of the model *)

\* operations performed after the initial store
MaxOps == 2

\* rows of the initial store
MaxSeed == 4

-----------------------------------------------------------------------------
(* Text *)

None == "<None>"

Min2(a, b) == IF a <= b THEN a ELSE b

RECURSIVE Rep(_, _)
Rep(s, n) ==
  IF n = 0 THEN ""
  ELSE LET half == Rep(s, n \div 2)
       IN  IF n % 2 = 0 THEN half \o half ELSE half \o half \o s

\* Python s[:n]
Take(s, n) == SubSeq(s, 1, Min2(Len(s), n))

\* Python `sub in s`
Contains(s, sub) ==
  \E i \in 0..(Len(s) - Len(sub)) : SubSeq(s, i + 1, i + Len(sub)) = sub

UpperChars == "ABCDEFGHIJKLMNOPQRSTUVWXYZ"

LowerChars == "abcdefghijklmnopqrstuvwxyz"

LowerChar(c) ==
  LET hit == {i \in 1..Len(UpperChars) : SubSeq(UpperChars, i, i) = c}
  IN  IF hit = {} THEN c ELSE LET i == CHOOSE j \in hit : TRUE IN SubSeq(LowerChars, i, i)

RECURSIVE Lower(_)
Lower(s) ==
  IF s = "" THEN "" ELSE LowerChar(SubSeq(s, 1, 1)) \o Lower(SubSeq(s, 2, Len(s)))

RECURSIVE Strip(_)
Strip(s) ==
  IF s = "" THEN ""
  ELSE IF SubSeq(s, 1, 1) = " " THEN Strip(SubSeq(s, 2, Len(s)))
  ELSE IF SubSeq(s, Len(s), Len(s)) = " " THEN Strip(SubSeq(s, 1, Len(s) - 1))
  ELSE s

-----------------------------------------------------------------------------
(* nz_locations.py *)

REGIONS ==
  << "Auckland",
     "Wellington",
     "Christchurch",
     "Hamilton",
     "Tauranga",
     "Dunedin",
     "Queenstown",
     "Palmerston North",
     "Napier-Hastings",
     "Nelson",
     "Rotorua",
     "New Plymouth",
     "Whangarei",
     "Invercargill",
     "Whanganui",
     "Gisborne",
     "Blenheim",
     "Timaru",
     "Other NZ",
     "Remote / Work from Home" >>

\* the (keyword, region) pairs of the dict literal, in the order written
LocationPairs ==
  <<
     <<"Auckland", "Auckland">>, <<"CBD", "Auckland">>, <<"North Shore", "Auckland">>,
     <<"Takapuna", "Auckland">>, <<"Albany", "Auckland">>, <<"Orewa", "Auckland">>,
     <<"Hibiscus Coast", "Auckland">>, <<"Silverdale", "Auckland">>, <<"Devonport", "Auckland">>,
     <<"Birkenhead", "Auckland">>, <<"Glenfield", "Auckland">>, <<"Browns Bay", "Auckland">>,
     <<"Milford", "Auckland">>, <<"East Auckland", "Auckland">>, <<"Howick", "Auckland">>,
     <<"Pakuranga", "Auckland">>, <<"Botany", "Auckland">>, <<"Manukau", "Auckland">>,
     <<"Papatoetoe", "Auckland">>, <<"Otahuhu", "Auckland">>, <<"Mangere", "Auckland">>,
     <<"Otara", "Auckland">>, <<"Flat Bush", "Auckland">>, <<"South Auckland", "Auckland">>,
     <<"Papakura", "Auckland">>, <<"Takanini", "Auckland">>, <<"Drury", "Auckland">>,
     <<"Pukekohe", "Auckland">>, <<"Waiuku", "Auckland">>, <<"Franklin", "Auckland">>,
     <<"West Auckland", "Auckland">>, <<"Henderson", "Auckland">>, <<"Te Atatu", "Auckland">>,
     <<"Glen Eden", "Auckland">>, <<"New Lynn", "Auckland">>, <<"Avondale", "Auckland">>,
     <<"Mt Albert", "Auckland">>, <<"Pt Chevalier", "Auckland">>, <<"Grey Lynn", "Auckland">>,
     <<"Ponsonby", "Auckland">>, <<"Parnell", "Auckland">>, <<"Newmarket", "Auckland">>,
     <<"Remuera", "Auckland">>, <<"Epsom", "Auckland">>, <<"Mt Eden", "Auckland">>,
     <<"Grafton", "Auckland">>, <<"Penrose", "Auckland">>, <<"Onehunga", "Auckland">>,
     <<"Ellerslie", "Auckland">>, <<"Greenlane", "Auckland">>, <<"Mt Wellington", "Auckland">>,
     <<"Panmure", "Auckland">>, <<"Glen Innes", "Auckland">>, <<"St Heliers", "Auckland">>,
     <<"Mission Bay", "Auckland">>, <<"Kohimarama", "Auckland">>, <<"Meadowbank", "Auckland">>,
     <<"Orakei", "Auckland">>, <<"Waitakere", "Auckland">>, <<"Kumeu", "Auckland">>,
     <<"Helensville", "Auckland">>, <<"Whangaparaoa", "Auckland">>, <<"Rodney", "Auckland">>,
     <<"Warkworth", "Auckland">>, <<"Wellington", "Wellington">>, <<"Lower Hutt", "Wellington">>,
     <<"Upper Hutt", "Wellington">>, <<"Hutt Valley", "Wellington">>, <<"Porirua", "Wellington">>,
     <<"Kapiti", "Wellington">>, <<"Paraparaumu", "Wellington">>, <<"Waikanae", "Wellington">>,
     <<"Petone", "Wellington">>, <<"Eastbourne", "Wellington">>, <<"Wainuiomata", "Wellington">>,
     <<"Miramar", "Wellington">>, <<"Kilbirnie", "Wellington">>, <<"Lyall Bay", "Wellington">>,
     <<"Island Bay", "Wellington">>, <<"Newtown", "Wellington">>, <<"Mt Victoria", "Wellington">>,
     <<"Te Aro", "Wellington">>, <<"Thorndon", "Wellington">>, <<"Kelburn", "Wellington">>,
     <<"Karori", "Wellington">>, <<"Johnsonville", "Wellington">>, <<"Tawa", "Wellington">>,
     <<"Churton Park", "Wellington">>, <<"Khandallah", "Wellington">>, <<"Ngaio", "Wellington">>,
     <<"Wadestown", "Wellington">>, <<"Brooklyn", "Wellington">>, <<"Mornington", "Wellington">>,
     <<"Berhampore", "Wellington">>, <<"Seatoun", "Wellington">>, <<"Strathmore", "Wellington">>,
     <<"Hataitai", "Wellington">>, <<"Masterton", "Wellington">>, <<"Carterton", "Wellington">>,
     <<"Greytown", "Wellington">>, <<"Featherston", "Wellington">>, <<"Wairarapa", "Wellington">>,
     <<"Christchurch", "Christchurch">>, <<"Canterbury", "Christchurch">>, <<"Addington", "Christchurch">>,
     <<"Riccarton", "Christchurch">>, <<"Ilam", "Christchurch">>, <<"Fendalton", "Christchurch">>,
     <<"Merivale", "Christchurch">>, <<"Papanui", "Christchurch">>, <<"Bishopdale", "Christchurch">>,
     <<"Burnside", "Christchurch">>, <<"Avonhead", "Christchurch">>, <<"Hornby", "Christchurch">>,
     <<"Sockburn", "Christchurch">>, <<"Wigram", "Christchurch">>, <<"Halswell", "Christchurch">>,
     <<"Spreydon", "Christchurch">>, <<"Sydenham", "Christchurch">>, <<"Cashmere", "Christchurch">>,
     <<"St Martins", "Christchurch">>, <<"Opawa", "Christchurch">>, <<"Woolston", "Christchurch">>,
     <<"Ferrymead", "Christchurch">>, <<"Sumner", "Christchurch">>, <<"Lyttelton", "Christchurch">>,
     <<"Linwood", "Christchurch">>, <<"Phillipstown", "Christchurch">>, <<"Waltham", "Christchurch">>,
     <<"St Albans", "Christchurch">>, <<"Edgeware", "Christchurch">>, <<"Mairehau", "Christchurch">>,
     <<"Shirley", "Christchurch">>, <<"Richmond", "Christchurch">>, <<"Avonside", "Christchurch">>,
     <<"Dallington", "Christchurch">>, <<"Burwood", "Christchurch">>, <<"Parklands", "Christchurch">>,
     <<"New Brighton", "Christchurch">>, <<"Kaiapoi", "Christchurch">>, <<"Rangiora", "Christchurch">>,
     <<"Rolleston", "Christchurch">>, <<"Lincoln", "Christchurch">>, <<"Prebbleton", "Christchurch">>,
     <<"Selwyn", "Christchurch">>, <<"Waimakariri", "Christchurch">>, <<"Belfast", "Christchurch">>,
     <<"Northwood", "Christchurch">>, <<"Redwood", "Christchurch">>, <<"Harewood", "Christchurch">>,
     <<"Russley", "Christchurch">>, <<"Yaldhurst", "Christchurch">>, <<"Templeton", "Christchurch">>,
     <<"Ashburton", "Christchurch">>, <<"Hamilton", "Hamilton">>, <<"Waikato", "Hamilton">>,
     <<"Cambridge", "Hamilton">>, <<"Te Awamutu", "Hamilton">>, <<"Morrinsville", "Hamilton">>,
     <<"Matamata", "Hamilton">>, <<"Ngaruawahia", "Hamilton">>, <<"Huntly", "Hamilton">>,
     <<"Raglan", "Hamilton">>, <<"Frankton", "Hamilton">>, <<"Claudelands", "Hamilton">>,
     <<"Hamilton East", "Hamilton">>, <<"Hamilton Central", "Hamilton">>, <<"Hillcrest", "Hamilton">>,
     <<"Rototuna", "Hamilton">>, <<"Te Rapa", "Hamilton">>, <<"Dinsdale", "Hamilton">>,
     <<"Tauranga", "Tauranga">>, <<"Bay of Plenty", "Tauranga">>, <<"Mt Maunganui", "Tauranga">>,
     <<"Mount Maunganui", "Tauranga">>, <<"Papamoa", "Tauranga">>, <<"Te Puke", "Tauranga">>,
     <<"Whakatane", "Tauranga">>, <<"Katikati", "Tauranga">>, <<"Omokoroa", "Tauranga">>,
     <<"Bethlehem", "Tauranga">>, <<"Greerton", "Tauranga">>, <<"Pyes Pa", "Tauranga">>,
     <<"Welcome Bay", "Tauranga">>, <<"Dunedin", "Dunedin">>, <<"Otago", "Dunedin">>,
     <<"Mosgiel", "Dunedin">>, <<"Port Chalmers", "Dunedin">>, <<"St Kilda", "Dunedin">>,
     <<"South Dunedin", "Dunedin">>, <<"North Dunedin", "Dunedin">>, <<"Oamaru", "Dunedin">>,
     <<"Balclutha", "Dunedin">>, <<"Alexandra", "Dunedin">>, <<"Cromwell", "Dunedin">>,
     <<"Central Otago", "Dunedin">>, <<"Queenstown", "Queenstown">>, <<"Arrowtown", "Queenstown">>,
     <<"Frankton", "Queenstown">>, <<"Wanaka", "Queenstown">>, <<"Queenstown-Lakes", "Queenstown">>,
     <<"Palmerston North", "Palmerston North">>, <<"Manawatu", "Palmerston North">>, <<"Feilding", "Palmerston North">>,
     <<"Levin", "Palmerston North">>, <<"Horowhenua", "Palmerston North">>, <<"Napier", "Napier-Hastings">>,
     <<"Hastings", "Napier-Hastings">>, <<"Hawke's Bay", "Napier-Hastings">>, <<"Hawkes Bay", "Napier-Hastings">>,
     <<"Havelock North", "Napier-Hastings">>, <<"Taradale", "Napier-Hastings">>, <<"Flaxmere", "Napier-Hastings">>,
     <<"Nelson", "Nelson">>, <<"Tasman", "Nelson">>, <<"Richmond", "Nelson">>,
     <<"Motueka", "Nelson">>, <<"Stoke", "Nelson">>, <<"Rotorua", "Rotorua">>,
     <<"Lakes", "Rotorua">>, <<"Taupo", "Rotorua">>, <<"New Plymouth", "New Plymouth">>,
     <<"Taranaki", "New Plymouth">>, <<"Stratford", "New Plymouth">>, <<"Hawera", "New Plymouth">>,
     <<"Inglewood", "New Plymouth">>, <<"Waitara", "New Plymouth">>, <<"Whangarei", "Whangarei">>,
     <<"Northland", "Whangarei">>, <<"Kerikeri", "Whangarei">>, <<"Paihia", "Whangarei">>,
     <<"Kaitaia", "Whangarei">>, <<"Dargaville", "Whangarei">>, <<"Invercargill", "Invercargill">>,
     <<"Southland", "Invercargill">>, <<"Gore", "Invercargill">>, <<"Te Anau", "Invercargill">>,
     <<"Whanganui", "Whanganui">>, <<"Wanganui", "Whanganui">>, <<"Gisborne", "Gisborne">>,
     <<"East Coast", "Gisborne">>, <<"Blenheim", "Blenheim">>, <<"Marlborough", "Blenheim">>,
     <<"Picton", "Blenheim">>, <<"Timaru", "Timaru">>, <<"South Canterbury", "Timaru">>,
     <<"Remote", "Remote / Work from Home">>, <<"Work from Home", "Remote / Work from Home">>, <<"WFH", "Remote / Work from Home">>,
     <<"Anywhere", "Remote / Work from Home">>, <<"New Zealand", "Remote / Work from Home">>, <<"NZ Wide", "Remote / Work from Home">>
  >>

\* a dict literal keeps a key at the place it was first written and the value
\* it was last given
DictOf(pairs) ==
  LET n == Len(pairs)
      firsts == {i \in 1..n : \A j \in 1..(i - 1) : pairs[j][1] # pairs[i][1]}
      nth(k) == CHOOSE i \in firsts : Cardinality({j \in firsts : j <= i}) = k
      lastOf(key) == CHOOSE i \in 1..n :
                       /\ pairs[i][1] = key
                       /\ \A j \in (i + 1)..n : pairs[j][1] # key
  IN  [k \in 1..Cardinality(firsts) |-> <<pairs[nth(k)][1], pairs[lastOf(pairs[nth(k)][1])][2]>>]

\* LOCATION_MAPPING.items()
LOCATION_MAPPING == DictOf(LocationPairs)

\* keyword.lower() of every item
KeywordLower == [i \in 1..Len(LOCATION_MAPPING) |-> Lower(LOCATION_MAPPING[i][1])]

\* region.lower() of every region
RegionLower == [i \in 1..Len(REGIONS) |-> Lower(REGIONS[i])]

MinOf(S) == CHOOSE x \in S : \A y \in S : x <= y

MaxOf(S) == CHOOSE x \in S : \A y \in S : y <= x

\* mutant: the last keyword that matches wins
get_region_LastMatch(location) ==
  IF location = None \/ location = "" THEN "Other NZ"
  ELSE LET location_lower == Strip(Lower(location))
           byKeyword == {i \in 1..Len(LOCATION_MAPPING) :
                           Contains(location_lower, KeywordLower[i])}
           byRegion == {i \in 1..Len(REGIONS) : Contains(location_lower, RegionLower[i])}
       IN  IF byKeyword # {} THEN LOCATION_MAPPING[MaxOf(byKeyword)][2]
           ELSE IF byRegion # {} THEN REGIONS[MinOf(byRegion)]
           ELSE "Other NZ"

\* mutant: the answer depends on what is stored
get_region_ByStore(location) == IF jobs = {} THEN "Other NZ" ELSE "Auckland"

get_region(location) ==
  IF location = None \/ location = "" THEN "Other NZ"
  ELSE LET location_lower == Strip(Lower(location))
           byKeyword == {i \in 1..Len(LOCATION_MAPPING) :
                           Contains(location_lower, KeywordLower[i])}
           byRegion == {i \in 1..Len(REGIONS) : Contains(location_lower, RegionLower[i])}
       IN  IF byKeyword # {} THEN LOCATION_MAPPING[MinOf(byKeyword)][2]
           ELSE IF byRegion # {} THEN REGIONS[MinOf(byRegion)]
           ELSE "Other NZ"

-----------------------------------------------------------------------------
(* The store: table "jobs" *)

\* the length of the description prefix that is part of a job's identity
PrefixLen == 200

\* a candidate, as the Record Source hands it to insert_or_update_job
Job(url, title, company, location, description) ==
  [url |-> url, title |-> title, company |-> company, location |-> location,
   description |-> description]

NoJob == Job(None, None, None, None, None)

\* a stored row
Row(id, job, region, first_seen, last_seen) ==
  [id |-> id, url |-> job.url, title |-> job.title, company |-> job.company,
   location |-> job.location, region |-> region, description |-> job.description,
   first_seen |-> first_seen, last_seen |-> last_seen, is_active |-> TRUE,
   triage_status |-> None]

\* .eq(column, value): the rows whose column equals the value; a null never
\* compares equal
Eq(rows, column, value) ==
  {r \in rows : value # None /\ r[column] # None /\ r[column] = value}

\* mutant: the whole description is compared
desc_prefix_Whole(d) == IF d = None THEN "" ELSE d

\* (d or '')[:200]
desc_prefix(d) == Take(IF d = None THEN "" ELSE d, PrefixLen)

\* SUBSTR(description, 1, 200), NULL for a NULL description
SUBSTR_description(d) == IF d = None THEN None ELSE Take(d, PrefixLen)

\* update_triage(job_id, status): .update({"triage_status": status}) on a row
Triaged(row, status) == [row EXCEPT !.triage_status = status]

\* mutant: the update also writes first_seen
Touch_ResetsFirstSeen(rows, hit, t) ==
  {IF r \in hit THEN [r EXCEPT !.first_seen = t, !.last_seen = t, !.is_active = TRUE]
             ELSE r : r \in rows}

\* .update({"last_seen": now, "is_active": True}) on the rows `hit`
Touch(rows, hit, t) ==
  {IF r \in hit THEN [r EXCEPT !.last_seen = t, !.is_active = TRUE] ELSE r : r \in rows}

\* what one call may do: the store it leaves, what it returns, whether an
\* exception was caught
Outcome(rows, ret, err) == [jobs |-> rows, ret |-> ret, err |-> err]

\* step 1 (lines 58-66): the rows with the candidate's url
existing(rows, job) == Eq(rows, "url", job.url)

\* step 2 (lines 72-85): the rows with the candidate's title, company and
\* location whose description prefix equals the candidate's
\* mutant: the location is left out of the lookup
duplicate_query_NoLocation(rows, job) ==
  Eq(Eq(rows, "title", job.title), "company", job.company)

duplicate_query(rows, job) ==
  Eq(Eq(Eq(rows, "title", job.title), "company", job.company), "location", job.location)

\* mutant: the whole description compared, not its prefix
IsDuplicate_WholeText(dup, job) == dup.description = job.description

IsDuplicate(dup, job) == desc_prefix(dup.description) = desc_prefix(job.description)

duplicates(rows, job) == {dup \in duplicate_query(rows, job) : IsDuplicate(dup, job)}

\* mutant: the region is left out of the inserted row
NewRow_NoRegion(id, job, t) == Row(id, job, None, t, t)

\* step 3 (lines 96-113): the inserted row
NewRow(id, job, t) == Row(id, job, get_region(job.location), t, t)

\* mutant: a duplicate is replaced by the candidate, not refreshed
insert_or_update_job_outcomes_Replaces(rows, job, id, t) ==
  LET found ==
        IF existing(rows, job) # {}
          THEN {Outcome(Touch(rows, existing(rows, job), t), FALSE, FALSE)}
        ELSE IF duplicates(rows, job) # {}
          THEN {Outcome((rows \ {dup}) \cup {NewRow(id, job, t)}, FALSE, FALSE) :
                  dup \in duplicates(rows, job)}
        ELSE {Outcome(rows \cup {NewRow(id, job, t)}, TRUE, FALSE)}
  IN  found \cup {Outcome(rows, FALSE, TRUE)}

\* mutant: no lookup, every candidate inserted
insert_or_update_job_outcomes_NoLookup(rows, job, id, t) ==
  {Outcome(rows \cup {NewRow(id, job, t)}, TRUE, FALSE), Outcome(rows, FALSE, TRUE)}

\* JobDatabase.insert_or_update_job(job) on the store `rows` at time t, the
\* store assigning `id` to a row it inserts.  The rows of duplicate_query come
\* in no stated order, so the loop may meet any of the duplicates first.  Any
\* store call may raise; the except clause then returns False.
insert_or_update_job_outcomes(rows, job, id, t) ==
  LET found ==
        IF existing(rows, job) # {}
          THEN {Outcome(Touch(rows, existing(rows, job), t), FALSE, FALSE)}
        ELSE IF duplicates(rows, job) # {}
          THEN {Outcome(Touch(rows, {dup}, t), FALSE, FALSE) : dup \in duplicates(rows, job)}
        ELSE {Outcome(rows \cup {NewRow(id, job, t)}, TRUE, FALSE)}
  IN  found \cup {Outcome(rows, FALSE, TRUE)}

-----------------------------------------------------------------------------
(* The sweep *)

\* the rows the query groups: WHERE title, company, location IS NOT NULL
Grouped(rows) ==
  {r \in rows : r.title # None /\ r.company # None /\ r.location # None}

\* GROUP BY title, company, location, SUBSTR(description, 1, 200)
GroupKey(r) == <<r.title, r.company, r.location, SUBSTR_description(r.description)>>

\* HAVING count > 1
DuplicateGroups(rows) ==
  {g \in {{q \in Grouped(rows) : GroupKey(q) = GroupKey(r)} : r \in Grouped(rows)} :
     Cardinality(g) > 1}

\* all the ways to put the set S in a row
Orders(S) ==
  {s \in [1..Cardinality(S) -> S] : \A i, j \in 1..Cardinality(S) : i # j => s[i] # s[j]}

\* mutant: the ids of a group, latest first_seen first
GroupIds_Descending(g) ==
  {[i \in 1..Len(s) |-> s[i].id] :
     s \in {o \in Orders(g) : \A i, j \in 1..Cardinality(g) :
                                 i < j => o[i].first_seen >= o[j].first_seen}}

\* GROUP_CONCAT(id ORDER BY first_seen ASC): the ids of a group, earliest
\* first_seen first; rows of equal first_seen come in either order
GroupIds(g) ==
  {[i \in 1..Len(s) |-> s[i].id] :
     s \in {o \in Orders(g) : \A i, j \in 1..Cardinality(g) :
                                 i < j => o[i].first_seen <= o[j].first_seen}}

\* cursor.fetchall(): one ids list per duplicate group, the groups in no
\* stated order
FetchGroups(rows) ==
  LET groups == DuplicateGroups(rows)
      lists == UNION {GroupIds(g) : g \in groups}
  IN  {p \in [1..Cardinality(groups) -> lists] :
         \E o \in Orders(groups) : \A i \in 1..Cardinality(groups) : p[i] \in GroupIds(o[i])}

keep_id(ids) == ids[1]

\* mutant: only the first of the later members is removed
remove_ids_OnlySecond(ids) == <<ids[2]>>

remove_ids(ids) == Tail(ids)

RECURSIVE Deletes(_)
\* the DELETE statements of the loop, in the order they are executed
Deletes(duplicate_groups) ==
  IF duplicate_groups = <<>> THEN <<>>
  ELSE remove_ids(Head(duplicate_groups)) \o Deletes(Tail(duplicate_groups))

Range(s) == {s[i] : i \in 1..Len(s)}

\* mutant: the rows are marked inactive and stay in the store
Delete_Deactivates(rows, ids) ==
  {IF r.id \in ids THEN [r EXCEPT !.is_active = FALSE] ELSE r : r \in rows}

\* DELETE FROM jobs WHERE id = ? for every id of `ids`
Delete(rows, ids) == {r \in rows : r.id \notin ids}

\* mutant: every DELETE is committed as it is executed
Commit_EachDelete(rows, work, committed) == work

\* conn.commit() (line 161) makes the deletes of the connection permanent; a
\* connection closed without it loses them
Commit(rows, work, committed) == IF committed THEN work ELSE rows

\* mutant: dry_run is not looked at
remove_duplicates_run_NoDryRun(rows, duplicate_groups, dry_run, fail) ==
  LET deletes == Deletes(duplicate_groups)
      done == IF fail = 0 THEN deletes ELSE SubSeq(deletes, 1, fail - 1)
  IN  [jobs |-> Commit(rows, Delete(rows, Range(done)), fail = 0),
       total_removed |-> Len(done),
       deleted |-> Range(done),
       err |-> fail # 0]

\* mutant: the run that deletes also deletes the keepers
remove_duplicates_run_DeletesKeepers(rows, duplicate_groups, dry_run, fail) ==
  LET deletes == Deletes(duplicate_groups)
      done == IF dry_run THEN <<>>
              ELSE IF fail = 0 THEN deletes
              ELSE SubSeq(deletes, 1, fail - 1)
      keepers == {keep_id(duplicate_groups[i]) : i \in 1..Len(duplicate_groups)}
  IN  [jobs |-> Commit(rows, Delete(rows, Range(done) \cup keepers), ~dry_run /\ fail = 0),
       total_removed |-> Len(done),
       deleted |-> Range(done),
       err |-> fail # 0]

\* remove_duplicates(dry_run) of find_true_duplicates.py on the store `rows`,
\* the query returning duplicate_groups, and the fail-th DELETE raising
\* (fail = 0: none does)
remove_duplicates_run(rows, duplicate_groups, dry_run, fail) ==
  LET deletes == Deletes(duplicate_groups)
      done == IF dry_run THEN <<>>
              ELSE IF fail = 0 THEN deletes
              ELSE SubSeq(deletes, 1, fail - 1)
  IN  [jobs |-> Commit(rows, Delete(rows, Range(done)), ~dry_run /\ fail = 0),
       total_removed |-> Len(done),
       deleted |-> Range(done),
       err |-> fail # 0]

\* remove_duplicates() of remove_duplicates_simple.py: the same loop, always
\* deleting
remove_duplicates_simple_run(rows, duplicate_groups, fail) ==
  LET deletes == Deletes(duplicate_groups)
      done == IF fail = 0 THEN deletes ELSE SubSeq(deletes, 1, fail - 1)
  IN  [jobs |-> Commit(rows, Delete(rows, Range(done)), fail = 0),
       total_removed |-> Len(done),
       deleted |-> Range(done),
       err |-> fail # 0]

-----------------------------------------------------------------------------
(* Inputs *)

\* 200 characters
Text200 == Rep("Busy cafe ", 20)

\* two descriptions equal in their first 200 characters and different after
DescX == Text200 \o "seeking a cook"

DescY == Text200 \o "seeking a chef"

\* a description that differs from them at character 200 only
DescP == SubSeq(Text200, 1, PrefixLen - 1) \o "!"

DescShort == "We need..."

Candidates ==
  { Job("a", "Cook", "Cafe X", "Wellington", DescX),
    Job("f", "Cook", "Cafe X", "Wellington", DescY),
    Job("g", "Cook", "Cafe X", "Auckland", DescY),
    Job("a", "Chef", "Cafe Y", "Auckland", DescShort),
    Job("g", "Cook", "Cafe X", "Wellington", None),
    Job("f", "Cook", "Cafe X", "Wellington", ""),
    Job("g", "Cook", "Cafe X", "Wellington", DescP),
    Job("g", "Chef", "Cafe X", "Wellington", DescX),
    Job("f", "Cook", "Cafe Y", "Wellington", DescX) }

\* rows an earlier run left in the store.  Rows 10, 11, 12 are one job under
\* three urls, as are 13 and 14 (these two first seen at the same time); 15
\* and 16 carry no description, one as NULL and one as the empty string.
\* Row 10 has been triaged in the viewer.
SeedRows ==
  { Triaged(Row(10, Job("a", "Cook", "Cafe X", "Wellington", DescX), "Wellington", 1, 1),
            "yes"),
    Row(11, Job("b", "Cook", "Cafe X", "Wellington", DescY), "Wellington", 2, 2),
    Row(12, Job("c", "Cook", "Cafe X", "Wellington", DescX), "Wellington", 3, 3),
    Row(13, Job("d", "Cook", "Cafe X", "Auckland", DescX), "Auckland", 1, 2),
    Row(14, Job("e", "Cook", "Cafe X", "Auckland", DescY), "Auckland", 1, 3),
    Row(15, Job("d", "Cook", "Cafe X", "Wellington", None), "Wellington", 2, 2),
    Row(16, Job("e", "Cook", "Cafe X", "Wellington", ""), "Wellington", 3, 3) }

SeedStores ==
  {S \in SUBSET SeedRows :
     /\ Cardinality(S) <= MaxSeed
     /\ \A r, q \in S : r.url = q.url => r = q}

\* the clock and the id counter start past every seed row
Clock0 == MaxOf({r.last_seen : r \in SeedRows}) + 1

Id0 == MaxOf({r.id : r \in SeedRows}) + 1

-----------------------------------------------------------------------------
(* The state machine *)

\* what `last` keeps of the operation before it
Brief(op) ==
  [name |-> op.name, job |-> op.job, ret |-> op.ret, err |-> op.err,
   dry_run |-> op.dry_run, total_removed |-> op.total_removed]

NoOp ==
  [name |-> "none", job |-> NoJob, ret |-> FALSE, err |-> FALSE, dry_run |-> FALSE,
   total_removed |-> 0]

\* the record of an operation run now on the store `jobs`
Op(name, job, ret, err, dry_run, duplicate_groups, total_removed, deleted) ==
  [name |-> name, job |-> job, ret |-> ret, err |-> err, pre |-> jobs, at |-> now,
   dry_run |-> dry_run, duplicate_groups |-> duplicate_groups,
   total_removed |-> total_removed, deleted |-> deleted, prior |-> Brief(last)]

Init ==
  /\ jobs \in SeedStores
  /\ nextId = Id0
  /\ now = Clock0
  /\ last = [name |-> "none", job |-> NoJob, ret |-> FALSE, err |-> FALSE, pre |-> {},
             at |-> 0, dry_run |-> FALSE, duplicate_groups |-> <<>>,
             total_removed |-> 0, deleted |-> {}, prior |-> NoOp]

Running == now < Clock0 + MaxOps

insert_or_update_job(job) ==
  /\ Running
  /\ \E o \in insert_or_update_job_outcomes(jobs, job, nextId, now) :
       /\ jobs' = o.jobs
       /\ nextId' = IF o.ret THEN nextId + 1 ELSE nextId
       /\ last' = Op("insert_or_update_job", job, o.ret, o.err, FALSE, <<>>, 0, {})
  /\ now' = now + 1

remove_duplicates(dry_run) ==
  /\ Running
  /\ \E duplicate_groups \in FetchGroups(jobs) :
       \E fail \in 0..(IF dry_run THEN 0 ELSE Len(Deletes(duplicate_groups))) :
         LET o == remove_duplicates_run(jobs, duplicate_groups, dry_run, fail)
         IN  /\ jobs' = o.jobs
             /\ last' = Op("remove_duplicates", NoJob, FALSE, o.err, dry_run,
                           duplicate_groups, o.total_removed, o.deleted)
  /\ now' = now + 1
  /\ UNCHANGED nextId

remove_duplicates_simple ==
  /\ Running
  /\ \E duplicate_groups \in FetchGroups(jobs) :
       \E fail \in 0..Len(Deletes(duplicate_groups)) :
         LET o == remove_duplicates_simple_run(jobs, duplicate_groups, fail)
         IN  /\ jobs' = o.jobs
             /\ last' = Op("remove_duplicates_simple", NoJob, FALSE, o.err, FALSE,
                           duplicate_groups, o.total_removed, o.deleted)
  /\ now' = now + 1
  /\ UNCHANGED nextId

Next ==
  \/ \E job \in Candidates : insert_or_update_job(job)
  \/ \E dry_run \in BOOLEAN : remove_duplicates(dry_run)
  \/ remove_duplicates_simple

Spec == Init /\ [][Next]_vars

TypeOK ==
  /\ \A r \in jobs : r.id < nextId /\ r.first_seen <= r.last_seen
  /\ \A r, q \in jobs : r.id = q.id => r = q

-----------------------------------------------------------------------------
(* Properties.  They speak of the last operation through `last`: the store  *)
(* it ran on is last.pre, the store it left is jobs.                        *)

\* a description, a missing one read as the empty string
TextOf(d) == IF d = None THEN "" ELSE d

First200(d) == SubSeq(TextOf(d), 1, Min2(Len(TextOf(d)), 200))

\* the stored row r has the candidate's title, company and location and the
\* candidate's first 200 description characters
SameContent(r, job) ==
  /\ r.title # None /\ r.company # None /\ r.location # None
  /\ r.title = job.title /\ r.company = job.company /\ r.location = job.location
  /\ First200(r.description) = First200(job.description)

UrlStored(rows, job) == \E r \in rows : r.url = job.url

Ids(rows) == {r.id : r \in rows}

\* insert_or_update_job has just returned without a store error
UpsertDone == last.name = "insert_or_update_job" /\ ~last.err

\* the row with r0's id carries the time of the last operation
Refreshed(r0) == \E r \in jobs : r.id = r0.id /\ r.last_seen = last.at /\ r.is_active

\* the row with r0's id is as it was, last_seen and is_active apart
SameButSeen(r0) ==
  \E r \in jobs : r = [r0 EXCEPT !.last_seen = r.last_seen, !.is_active = r.is_active]

\* the candidate's url was not stored and a stored row had its content
RenameCase == UpsertDone /\ ~UrlStored(last.pre, last.job)
                /\ \E R \in last.pre : SameContent(R, last.job)

SameJob(r, job) == r.url = job.url \/ SameContent(r, job)

Matches(rows, job) == {r \in rows : SameJob(r, job)}

\* a step that is the second of two successive calls of insert_or_update_job
\* with the same candidate, neither meeting a store error
SecondOfTwoUpserts ==
  /\ last.name = "insert_or_update_job" /\ ~last.err
  /\ last'.name = "insert_or_update_job" /\ ~last'.err
  /\ last'.job = last.job
  /\ now' = now + 1

\* the step advances last_seen of a stored row that is the same job as the
\* candidate
AdvancesLastSeen ==
  \E r0 \in jobs : \E r \in jobs' :
    /\ r.id = r0.id /\ SameJob(r0, last'.job)
    /\ r.last_seen = last'.at /\ r0.last_seen < r.last_seen

DifferInLocation(j1, j2) ==
  /\ j1.url # j2.url
  /\ j1.title = j2.title /\ j1.company = j2.company
  /\ First200(j1.description) = First200(j2.description)
  /\ j1.location # j2.location

\* a step that is the second of two successive calls of insert_or_update_job,
\* neither meeting a store error, for two such candidates, the second of them
\* not yet stored (by url or by content) before the first call
SecondOfTwoLocations ==
  /\ last.name = "insert_or_update_job" /\ ~last.err
  /\ last'.name = "insert_or_update_job" /\ ~last'.err
  /\ now' = now + 1
  /\ DifferInLocation(last.job, last'.job)
  /\ Matches(last.pre, last'.job) = {}

\* C3: two candidates with different urls that differ in location are never
\* merged: the second call returns Inserted (True) and adds one row, and the
\* store then holds two separate records, the one the first call inserted or
\* refreshed and the one the second call inserted, in either order of the two
\* (a row the first call refreshed by its url keeps the location it had).
C3_LocationsNotMerged ==
  [][SecondOfTwoLocations =>
       /\ last'.ret = TRUE
       /\ Cardinality(jobs') = Cardinality(jobs) + 1
       /\ jobs \subseteq jobs'
       /\ \E r1, r2 \in jobs' :
            /\ r1.id # r2.id
            /\ r1.last_seen = last.at
            /\ r2.url = last'.job.url /\ r2.location = last'.job.location
            /\ r2.first_seen = last'.at
            /\ SameJob(r1, last.job)
            /\ ~UrlStored(last.pre, last.job) => r1.location # r2.location]_vars

\* both candidates were inserted, one after the other
C3_Witness ==
  /\ UpsertDone /\ last.ret = TRUE
  /\ last.prior.name = "insert_or_update_job" /\ ~last.prior.err /\ last.prior.ret = TRUE
  /\ DifferInLocation(last.prior.job, last.job)
  /\ \E r1, r2 \in jobs :
       /\ r1.id # r2.id
       /\ r1.url = last.prior.job.url /\ r1.location = last.prior.job.location
       /\ r2.url = last.job.url /\ r2.location = last.job.location

-----------------------------------------------------------------------------
(* The sweep's properties *)

IsSweep(op) == op.name \in {"remove_duplicates", "remove_duplicates_simple"}

\* a sweep with dry_run = false has run to its end
SweepDone == IsSweep(last) /\ ~last.dry_run /\ ~last.err

\* a sweep with dry_run = false has stopped at a DELETE that raised
SweepFailed == IsSweep(last) /\ ~last.dry_run /\ last.err

\* the first 200 characters of a stored description, as SQL cuts them
SqlFirst200(d) == IF d = None THEN None ELSE SubSeq(d, 1, Min2(Len(d), 200))

\* the rows of `rows` that share r's title, company, location and first 200
\* description characters
GroupOf(rows, r) ==
  {q \in rows :
     /\ q.title # None /\ q.company # None /\ q.location # None
     /\ q.title = r.title /\ q.company = r.company /\ q.location = r.location
     /\ SqlFirst200(q.description) = SqlFirst200(r.description)}

\* the duplicate groups of `rows`
Groups(rows) == {g \in {GroupOf(rows, r) : r \in rows} : Cardinality(g) > 1}

\* k is the member of g the sweep is to keep
Earliest(k, g) == k \in g /\ \A q \in g : k.first_seen <= q.first_seen

\* C4: a completed sweep with dry_run = false keeps, of every duplicate group,
\* the member with the earliest first_seen, deletes every other member, and
\* returns the number of rows deleted; of the group of ids 10, 11, 12 (first
\* seen in that order) it leaves id 10.
C4_SweepKeepsEarliest ==
  SweepDone =>
    /\ \A g \in Groups(last.pre) :
         \E k \in g : /\ Earliest(k, g)
                      /\ k \in jobs
                      /\ \A q \in g \ {k} : q.id \notin Ids(jobs)
    /\ last.total_removed = Cardinality(last.pre) - Cardinality(jobs)
    /\ last.total_removed = Cardinality(last.deleted)
    /\ {10, 11, 12} \subseteq Ids(last.pre) => Ids(jobs) \cap {10, 11, 12} = {10}

\* the group of ids 10, 11, 12 was swept: 10 is left and 2 is returned
C4_Witness ==
  /\ SweepDone
  /\ \E g \in Groups(last.pre) : Ids(g) = {10, 11, 12}
  /\ Cardinality(Groups(last.pre)) = 1
  /\ Ids(jobs) \cap {10, 11, 12} = {10}
  /\ last.total_removed = 2

\* C5: a sweep that follows a completed sweep (dry_run = false) finds no
\* duplicate group, deletes no row and returns 0.
C5_SecondSweepRemovesNothing ==
  [][(SweepDone /\ IsSweep(last') /\ now' = now + 1) =>
       /\ last'.duplicate_groups = <<>>
       /\ last'.total_removed = 0
       /\ ~last'.err
       /\ jobs' = jobs]_vars

\* a sweep that deleted rows was followed by a sweep with dry_run = false
C5_Witness ==
  /\ SweepDone
  /\ IsSweep(last.prior) /\ ~last.prior.dry_run /\ ~last.prior.err
  /\ last.prior.total_removed > 0
  /\ last.total_removed = 0 /\ last.duplicate_groups = <<>>
  /\ jobs = last.pre

\* the plan names, for the group g, its keeper and its removal candidates
Planned(plan, g) ==
  \E i \in 1..Len(plan) :
    /\ \E k \in g : Earliest(k, g) /\ k.id = plan[i][1]
    /\ Range(plan[i]) = Ids(g)
    /\ Len(plan[i]) = Cardinality(g)

\* C6: remove_duplicates(dry_run=True) leaves the store as it was and still
\* works out, for every duplicate group, the keeper and the removal
\* candidates.
C6_DryRunKeepsStore ==
  (last.name = "remove_duplicates" /\ last.dry_run) =>
    /\ jobs = last.pre
    /\ last.total_removed = 0 /\ last.deleted = {}
    /\ ~last.err
    /\ Len(last.duplicate_groups) = Cardinality(Groups(last.pre))
    /\ \A g \in Groups(last.pre) : Planned(last.duplicate_groups, g)

\* a dry run over a store with two duplicate groups
C6_Witness ==
  /\ last.name = "remove_duplicates" /\ last.dry_run
  /\ Cardinality(Groups(last.pre)) = 2
  /\ Len(last.duplicate_groups) = 2
  /\ jobs = last.pre

-----------------------------------------------------------------------------
(* The identity rule of the sweep against that of upsert *)

\* the stored row r, handed to insert_or_update_job as a candidate
JobOf(r) == Job(r.url, r.title, r.company, r.location, r.description)

\* the sweep puts the stored rows a and b in one duplicate group
SameGroup(a, b) == \E g \in DuplicateGroups(jobs) : a \in g /\ b \in g

\* step 2 of upsert, given a as the candidate, takes b for the same job
StepTwoSame(a, b) == b \in duplicates(jobs, JobOf(a))

\* C8: any two stored records are in the same duplicate group of the sweep
\* exactly when step 2 of insert_or_update_job takes one for the same job as
\* the other, a null or empty description included.
C8_LockStep ==
  \A a, b \in jobs : a # b => (SameGroup(a, b) <=> StepTwoSame(a, b))

-----------------------------------------------------------------------------
(* The update by url and the insert *)

\* C9: when the candidate's url is that of a stored record, the call returns
\* Updated (False), inserts no row, sets last_seen to the current time and
\* is_active to true on that record and changes nothing else: its title,
\* company, location, description, region, first_seen and triage_status stay,
\* whatever the candidate's values, and so does every other row.
C9_UrlMatchFrame ==
  (UpsertDone /\ UrlStored(last.pre, last.job)) =>
    /\ last.ret = FALSE
    /\ Cardinality(jobs) = Cardinality(last.pre)
    /\ \A r0 \in last.pre :
         IF r0.url = last.job.url
           THEN [r0 EXCEPT !.last_seen = last.at, !.is_active = TRUE] \in jobs
           ELSE r0 \in jobs

\* a triaged row was met again by url under another title, company, location
\* and description, and kept its own
C9_Witness ==
  /\ UpsertDone /\ last.ret = FALSE
  /\ \E r0 \in last.pre : \E r \in jobs :
       /\ r0.url = last.job.url /\ r.id = r0.id
       /\ r0.title # last.job.title /\ r0.company # last.job.company
       /\ r0.location # last.job.location /\ r0.description # last.job.description
       /\ r0.region # get_region(last.job.location)
       /\ r0.triage_status = "yes"
       /\ r0.last_seen < last.at
       /\ r = [r0 EXCEPT !.last_seen = last.at]

\* C10: when no stored record has the candidate's url or its title, company,
\* location and first 200 description characters, the call returns Inserted
\* (True) and adds exactly one row: the candidate's fields, region =
\* get_region(location) ("Wellington" for the location "Wellington"),
\* first_seen = last_seen = the current time, is_active true, triage_status
\* null.
C10_InsertPostcondition ==
  (UpsertDone /\ Matches(last.pre, last.job) = {}) =>
    /\ last.ret = TRUE
    /\ Cardinality(jobs) = Cardinality(last.pre) + 1
    /\ \E r \in jobs :
         /\ jobs = last.pre \cup {r}
         /\ r.id \notin Ids(last.pre)
         /\ JobOf(r) = last.job
         /\ r.region = get_region(last.job.location)
         /\ last.job.location = "Wellington" => r.region = "Wellington"
         /\ r.first_seen = last.at /\ r.last_seen = last.at
         /\ r.is_active = TRUE
         /\ r.triage_status = None

\* a first candidate with location "Wellington" was inserted into the empty
\* store, with region "Wellington"
C10_Witness ==
  /\ UpsertDone /\ last.ret = TRUE
  /\ last.pre = {}
  /\ last.job.location = "Wellington"
  /\ \E r \in jobs :
       /\ jobs = {r} /\ JobOf(r) = last.job
       /\ r.region = "Wellington"
       /\ r.first_seen = last.at /\ r.last_seen = last.at
       /\ r.triage_status = None

-----------------------------------------------------------------------------
(* The scrape pass: the loop of scrape_search_results over one page *)

\* the description length from which a stored description counts as full
FullLen == 500

\* Python's truth of a string or None
Truthy(s) == s # None /\ s # ""

\* s.endswith(suffix)
EndsWith(s, suffix) ==
  Len(s) >= Len(suffix) /\ SubSeq(s, Len(s) - Len(suffix) + 1, Len(s)) = suffix

\* mutant: every stored description is taken for full
needs_backfill_Never(existing_desc) == FALSE

\* needs_backfill (lines 861-865)
needs_backfill(existing_desc) ==
  \/ Len(existing_desc) < FullLen
  \/ EndsWith(existing_desc, "...")
  \/ Contains(existing_desc, "Description not available")

\* mutant: the backfill also stamps first_seen
Backfill_ResetsFirstSeen(rows, e, full_description, t) ==
  {IF r.id = e.id
     THEN [r EXCEPT !.description = full_description, !.first_seen = t, !.last_seen = t,
                    !.is_active = TRUE]
     ELSE r : r \in rows}

\* mutant: the backfill clears the triage
Backfill_ClearsTriage(rows, e, full_description, t) ==
  {IF r.id = e.id
     THEN [r EXCEPT !.description = full_description, !.last_seen = t, !.is_active = TRUE,
                    !.triage_status = None]
     ELSE r : r \in rows}

\* mutant: the backfill stores the first 200 characters only
Backfill_Snippet(rows, e, full_description, t) ==
  {IF r.id = e.id
     THEN [r EXCEPT !.description = Take(full_description, PrefixLen), !.last_seen = t,
                    !.is_active = TRUE]
     ELSE r : r \in rows}

\* .update({"description": ..., "last_seen": now, "is_active": True}).eq("id", id)
Backfill(rows, e, full_description, t) ==
  {IF r.id = e.id
     THEN [r EXCEPT !.description = full_description, !.last_seen = t, !.is_active = TRUE]
     ELSE r : r \in rows}

\* what the loop body leaves for one candidate: the store, whether the
\* candidate was counted new, whether an exception left the loop, whether a
\* store call failed
Step(rows, new, raised, failed) ==
  [jobs |-> rows, new |-> new, raised |-> raised, failed |-> failed]

\* the branch of a url that is stored (lines 855-890), existing_job being the
\* row e
scrape_existing(rows, e, job, full_description, t) ==
  LET existing_desc == IF e.description = None THEN "" ELSE e.description
  IN  IF needs_backfill(existing_desc)
        THEN IF Truthy(full_description) /\ Len(full_description) > Len(existing_desc)
               THEN Backfill(rows, e, full_description, t)
               ELSE Touch(rows, {e}, t)
        ELSE Touch(rows, Eq(rows, "url", job.url), t)

\* the loop body (lines 847-902) for the card `job`, scrape_job_details
\* giving full_description for it.  failure names the function whose store
\* call raises for this candidate, "none" when none does: a call of
\* scrape_search_results itself (the url lookup of line 853 or an update)
\* is in no try block, those of insert_or_update_job are.
scrape_candidate(rows, job, full_description, id, t, failure) ==
  IF ~Truthy(job.url) THEN {Step(rows, FALSE, FALSE, FALSE)}
  ELSE IF failure = "scrape_search_results" THEN {Step(rows, FALSE, TRUE, TRUE)}
  ELSE IF Eq(rows, "url", job.url) # {}
    THEN {Step(scrape_existing(rows, e, job, full_description, t), FALSE, FALSE, FALSE) :
            e \in Eq(rows, "url", job.url)}
  ELSE LET new_job == IF Truthy(full_description)
                        THEN [job EXCEPT !.description = full_description]
                        ELSE job
       IN  {Step(o.jobs, o.ret, FALSE, o.err) :
              o \in {o \in insert_or_update_job_outcomes(rows, new_job, id, t) :
                       o.err = (failure = "insert_or_update_job")}}

\* the state of a pass: the store, the next id, new_jobs, the places of the
\* page whose loop body ran to its end, the places whose store call failed,
\* whether the pass was left by an exception
Pass(rows, id, new_jobs, processed, failed, raised) ==
  [jobs |-> rows, nextId |-> id, new_jobs |-> new_jobs, processed |-> processed,
   failed |-> failed, raised |-> raised]

NoFailure == [at |-> 0, in |-> "none"]

\* the for loop of lines 847-902 from place i of the page on; fail.at is the
\* place whose store call raises, fail.in the function it is called in
RECURSIVE scrape_from(_, _, _, _, _, _)
scrape_from(page_jobs, details, fail, t, i, st) ==
  IF i > Len(page_jobs) THEN {st}
  ELSE UNION
    {IF r.raised
       THEN {Pass(st.jobs, st.nextId, st.new_jobs, st.processed, st.failed \cup {i}, TRUE)}
       ELSE scrape_from(page_jobs, details, fail, t, i + 1,
              Pass(r.jobs, IF r.new THEN st.nextId + 1 ELSE st.nextId,
                   IF r.new THEN st.new_jobs + 1 ELSE st.new_jobs,
                   st.processed \cup {i},
                   IF r.failed THEN st.failed \cup {i} ELSE st.failed, FALSE)) :
     r \in scrape_candidate(st.jobs, page_jobs[i], details[i], st.nextId, t,
                            IF fail.at = i THEN fail.in ELSE "none")}

\* the pass over one page
scrape_page_run(rows, id, page_jobs, details, fail, t) ==
  scrape_from(page_jobs, details, fail, t, 1, Pass(rows, id, 0, {}, {}, FALSE))

-----------------------------------------------------------------------------
(* import_csv_to_db, update_triage and main of find_true_duplicates.py *)

\* the row the INSERT of lines 37-50 stores: the columns it does not name
\* (region, first_seen, last_seen, is_active, triage_status) are left to the
\* table, taken here to stamp the time and to leave region null
ImportedRow(id, row, t) == Row(id, row, None, t, t)

\* the counters of import_csv_to_db and the rows written so far
Import(rows, id, imported, skipped, errors) ==
  [jobs |-> rows, nextId |-> id, imported |-> imported, skipped |-> skipped,
   errors |-> errors]

\* the loop of lines 26-60 from place i of the file on; the statement at
\* place fail raises (0: none does) and is caught by the except of line 57
RECURSIVE import_from(_, _, _, _, _)
import_from(csv_rows, fail, t, i, st) ==
  IF i > Len(csv_rows) THEN st
  ELSE import_from(csv_rows, fail, t, i + 1,
         IF fail = i
           THEN Import(st.jobs, st.nextId, st.imported, st.skipped, st.errors + 1)
         ELSE IF Eq(st.jobs, "url", csv_rows[i].url) # {}
           THEN Import(st.jobs, st.nextId, st.imported, st.skipped + 1, st.errors)
         ELSE Import(st.jobs \cup {ImportedRow(st.nextId, csv_rows[i], t)}, st.nextId + 1,
                     st.imported + 1, st.skipped, st.errors))

\* mutant: every row of the file is inserted, with no SELECT by url
import_csv_run_NoSelect(rows, id, csv_rows, fail, t) ==
  Import(rows \cup {ImportedRow(id + i - 1, csv_rows[i], t) : i \in 1..Len(csv_rows)},
         id + Len(csv_rows), Len(csv_rows), 0, 0)

\* import_csv_to_db(csv_file): the loop, then the commit of line 62
import_csv_run(rows, id, csv_rows, fail, t) ==
  import_from(csv_rows, fail, t, 1, Import(rows, id, 0, 0, 0))

\* the statuses update_triage of web_viewer.py accepts (line 212)
TriageStatuses == {"yes", "gsv", "no"}

\* mutant: a job triaged "no" is also made inactive
update_triage_run_Deactivates(rows, job_id, status) ==
  IF status \notin TriageStatuses THEN rows
  ELSE {IF r.id = job_id
          THEN [r EXCEPT !.triage_status = status, !.is_active = (status # "no")]
          ELSE r : r \in rows}

\* update_triage(job_id) of web_viewer.py: an invalid status is answered 400
\* and nothing is written
update_triage_run(rows, job_id, status) ==
  IF status \notin TriageStatuses THEN rows
  ELSE {IF r.id = job_id THEN Triaged(r, status) ELSE r : r \in rows}

\* what main() of find_true_duplicates.py may do on the store `rows`:
\* find_duplicates() prints every group and may raise on a field that is null
\* (crash); with no group main returns; else the plan is printed by
\* remove_duplicates(dry_run=True) and the rows are deleted only if the
\* answer, stripped and lowered, is "yes"
main_run(rows, plan, duplicate_groups, response, crash, fail) ==
  IF plan = <<>>
    THEN [jobs |-> rows, planned |-> FALSE, asked |-> FALSE, total_removed |-> 0,
          deleted |-> {}, err |-> FALSE]
  ELSE IF crash
    THEN [jobs |-> rows, planned |-> FALSE, asked |-> FALSE, total_removed |-> 0,
          deleted |-> {}, err |-> TRUE]
  ELSE IF Lower(Strip(response)) = "yes"
    THEN LET o == remove_duplicates_run(rows, duplicate_groups, FALSE, fail)
         IN  [jobs |-> o.jobs, planned |-> TRUE, asked |-> TRUE,
              total_removed |-> o.total_removed, deleted |-> o.deleted, err |-> o.err]
  ELSE [jobs |-> remove_duplicates_run(rows, plan, TRUE, 0).jobs, planned |-> TRUE,
        asked |-> TRUE, total_removed |-> 0, deleted |-> {}, err |-> FALSE]

-----------------------------------------------------------------------------
(* Inputs of the batch operations *)

\* a full description, as scrape_job_details returns it: FullLen characters
\* or more, its first 200 those of DescX
DescFull == Rep("Busy cafe ", 50) \o "seeking a cook, in full"

\* a candidate that lacks its title
Shapeless == Job("h", None, "Cafe X", "Wellington", DescShort)

\* candidates handed to insert_or_update_job between the batch operations,
\* the shapeless one among them
AllCandidates ==
  { Shapeless,
    Job("a", "Chef", "Cafe Y", "Auckland", DescShort),
    Job("f", "Cook", "Cafe X", "Wellington", DescY),
    Job("g", "Cook", "Cafe X", "Wellington", None) }

\* the cards of a listing page: one whose url is stored (row 10), one new
\* url, one without url, one without title
CardA == Job("a", "Cook", "Cafe X", "Wellington", DescShort)

CardH == Job("h", "Cook", "Cafe X", "Auckland", DescShort)

CardNoUrl == Job(None, "Cook", "Cafe X", "Wellington", DescShort)

\* pages, each with what scrape_job_details gives for its cards
PageRuns ==
  { [page_jobs |-> <<CardA>>, details |-> <<DescFull>>],
    [page_jobs |-> <<CardA, CardH>>, details |-> <<None, DescFull>>],
    [page_jobs |-> <<CardH, CardH>>, details |-> <<DescFull, DescFull>>],
    [page_jobs |-> <<CardNoUrl, CardH>>, details |-> <<None, None>>],
    [page_jobs |-> <<Shapeless, CardA>>, details |-> <<None, None>>] }

\* where a store call of a pass over page_jobs may raise
Failures(page_jobs) ==
  {NoFailure} \cup
  {[at |-> i, in |-> f] : i \in 1..Len(page_jobs),
                          f \in {"scrape_search_results", "insert_or_update_job"}}

\* CSV files: rows of one file share a url, or a row's url is stored, or a row
\* has an empty or a missing description
CsvFiles ==
  { <<Job("a", "Cook", "Cafe X", "Wellington", DescX)>>,
    <<Job("k", "Cook", "Cafe X", "Wellington", DescX),
      Job("k", "Cook", "Cafe X", "Wellington", DescX)>>,
    <<Job("k", "Cook", "Cafe Z", "Wellington", ""),
      Job("m", "Cook", "Cafe Z", "Wellington", None)>>,
    <<Job("a", "Chef", "Cafe Y", "Auckland", DescShort),
      Job("m", "Cook", "Cafe X", "Wellington", DescX)>> }

\* what the operator may type at the prompt of main
Responses == {"yes", " YES ", "no"}

\* statuses sent to update_triage
Statuses == {"no", "maybe"}

\* the stores the batch operations start from
BatchStores ==
  {S \in SeedStores : Ids(S) \in {{}, {10}, {13, 14}, {15, 16}, {10, 11, 12}}}

-----------------------------------------------------------------------------
(* The state machine of all operations *)

\* one pass of scrape_search_results over a page
scrape_search_results(page_jobs, details, fail) ==
  /\ Running
  /\ \E st \in scrape_page_run(jobs, nextId, page_jobs, details, fail, now) :
       /\ jobs' = st.jobs
       /\ nextId' = st.nextId
       /\ last' = Op("scrape_search_results", NoJob, FALSE, st.raised, FALSE, <<>>, 0, {})
                    @@ [page_jobs |-> page_jobs, details |-> details,
                        processed |-> st.processed, failed |-> st.failed,
                        new_jobs |-> st.new_jobs,
                        total_jobs |-> IF st.raised THEN 0 ELSE Len(page_jobs)]
  /\ now' = now + 1

import_csv_to_db(csv_rows, fail) ==
  /\ Running
  /\ LET st == import_csv_run(jobs, nextId, csv_rows, fail, now)
     IN  /\ jobs' = st.jobs
         /\ nextId' = st.nextId
         /\ last' = Op("import_csv_to_db", NoJob, FALSE, FALSE, FALSE, <<>>, 0, {})
                      @@ [csv_rows |-> csv_rows, imported |-> st.imported,
                          skipped |-> st.skipped, errors |-> st.errors,
                          failed |-> {fail} \cap (1..Len(csv_rows))]
  /\ now' = now + 1

update_triage(job_id, status) ==
  /\ Running
  /\ jobs' = update_triage_run(jobs, job_id, status)
  /\ last' = Op("update_triage", NoJob, status \in TriageStatuses, FALSE, FALSE, <<>>, 0, {})
               @@ [job_id |-> job_id, status |-> status]
  /\ now' = now + 1
  /\ UNCHANGED nextId

main(response) ==
  /\ Running
  /\ \E plan \in FetchGroups(jobs) : \E duplicate_groups \in FetchGroups(jobs) :
       \E crash \in BOOLEAN : \E fail \in 0..Len(Deletes(duplicate_groups)) :
         LET o == main_run(jobs, plan, duplicate_groups, response, crash, fail)
         IN  /\ jobs' = o.jobs
             /\ last' = Op("main", NoJob, FALSE, o.err, FALSE, duplicate_groups,
                           o.total_removed, o.deleted)
                          @@ [planned |-> o.planned, asked |-> o.asked,
                              response |-> response]
  /\ now' = now + 1
  /\ UNCHANGED nextId

InitAll ==
  /\ Init
  /\ jobs \in BatchStores

NextAll ==
  \/ \E job \in AllCandidates : insert_or_update_job(job)
  \/ \E run \in PageRuns : \E fail \in Failures(run.page_jobs) :
       scrape_search_results(run.page_jobs, run.details, fail)
  \/ \E csv_rows \in CsvFiles : \E fail \in 0..Len(csv_rows) :
       import_csv_to_db(csv_rows, fail)
  \/ \E job_id \in Ids(jobs) : \E status \in Statuses : update_triage(job_id, status)
  \/ \E response \in Responses : main(response)
  \/ \E dry_run \in BOOLEAN : remove_duplicates(dry_run)
  \/ remove_duplicates_simple

SpecAll == InitAll /\ [][NextAll]_vars

-----------------------------------------------------------------------------
(* Properties of all operations, checked under SpecAll *)

\* the rows of the store before the last operation that are stored no more
Gone == {r \in last.pre : r.id \notin Ids(jobs)}

\* the rows the last operation changed or added
Written == jobs \ last.pre

\* the last operation is the sweep, run by itself or from main
SweepRan == IsSweep(last) \/ last.name = "main"

IsPass == last.name = "scrape_search_results"

\* every card of the page was handled: its loop body ran to its end or its
\* store call failed
AllHandled == last.processed \cup last.failed = 1..Len(last.page_jobs)

\* C12: a store error met for one candidate of a pass, in a lookup or write
\* of insert_or_update_job or in the url lookup or an update of
\* scrape_search_results itself, stays with that candidate: the pass is not
\* left, and every later candidate is still processed.
C12_FailureIsolated ==
  IsPass =>
    /\ ~last.err
    /\ AllHandled
    /\ \A i \in last.failed : \A k \in (i + 1)..Len(last.page_jobs) : k \in last.processed

\* what insert_or_update_job returns for an update (line 66 and line 91)
Updated == FALSE

\* C13: every candidate of a batch whose lookup or write failed is counted in
\* an error count the batch caller gets, so that the caller can tell a failed
\* candidate from an updated one: import_csv_to_db counts each failed row in
\* errors, with imported + skipped + errors = the rows read, and a call of
\* insert_or_update_job that failed does not answer the scrape pass as an
\* update does.
C13_FailuresCounted ==
  /\ last.name = "import_csv_to_db" =>
       /\ last.errors = Cardinality(last.failed)
       /\ last.imported + last.skipped + last.errors = Len(last.csv_rows)
  /\ (last.name = "insert_or_update_job" /\ last.err) => last.ret # Updated

\* the candidate lacks a required field
LacksField(job) ==
  job.url = None \/ job.title = None \/ job.company = None \/ job.location = None

\* the last operation is one of the online path
Online == last.name \in {"insert_or_update_job", "scrape_search_results"}

Script == last.name \in {"main", "remove_duplicates_simple"}

\* the plan of a dry run was printed and the operator answered yes
Gated ==
  /\ last.name = "main"
  /\ last.planned /\ last.asked
  /\ Lower(Strip(last.response)) = "yes"

\* C15: a script that deletes duplicates deletes no row before a dry-run plan
\* was produced and the operator answered "yes"; with any other answer the
\* store stays as it was.
C15_ConfirmationGate ==
  /\ (Script /\ Gone # {}) => Gated
  /\ (last.name = "main" /\ Lower(Strip(last.response)) # "yes") => jobs = last.pre

-----------------------------------------------------------------------------
(* get_region, called by itself and by the insert of insert_or_update_job *)

\* locations handed to get_region
Locations ==
  { "123 Queen St, Auckland CBD", "somewhere with no match", "", None,
    "Frankton, Hamilton", "Frankton", "Richmond", "Lower Hutt", "  WELLINGTON ",
    "Other NZ", "Napier-Hastings", "Nelson Bays", "South Canterbury" }

\* candidates whose insert calls get_region
RegionCandidates ==
  { Job("r1", "Cook", "Cafe R", "123 Queen St, Auckland CBD", DescShort),
    Job("r2", "Cook", "Cafe R", "somewhere with no match", DescShort),
    Job("r3", "Cook", "Cafe R", "Frankton, Hamilton", DescShort),
    Job("r4", "Cook", "Cafe R", "Other NZ", DescShort) }

\* a call get_region(location); `calls` keeps the answers of the calls made
\* one after the other
call_get_region(location) ==
  /\ Running
  /\ last' = Op("get_region", NoJob, FALSE, FALSE, FALSE, <<>>, 0, {})
               @@ [location |-> location, region |-> get_region(location),
                   calls |-> IF last.name = "get_region"
                               THEN last.calls \cup {<<last.location, last.region>>}
                               ELSE {}]
  /\ now' = now + 1
  /\ UNCHANGED <<jobs, nextId>>

InitRegion ==
  /\ Init
  /\ jobs \in BatchStores

NextRegion ==
  \/ \E location \in Locations : call_get_region(location)
  \/ \E job \in RegionCandidates : insert_or_update_job(job)

SpecRegion == InitRegion /\ [][NextRegion]_vars

\* the places of the keywords of LOCATION_MAPPING whose lowercase form is part
\* of the lowercased location
KeywordsIn(location) ==
  LET location_lower == Strip(Lower(location))
  IN  {i \in 1..Len(LOCATION_MAPPING) : Contains(location_lower, KeywordLower[i])}

\* the places of the names of REGIONS that are part of the location
RegionsIn(location) ==
  LET location_lower == Strip(Lower(location))
  IN  {i \in 1..Len(REGIONS) : Contains(location_lower, RegionLower[i])}

\* region is what first-match-wins gives for the location
FirstMatch(location, region) ==
  IF location = None \/ location = "" THEN region = "Other NZ"
  ELSE LET keywords == KeywordsIn(location)
           regions == RegionsIn(location)
       IN  \/ \E i \in keywords :
                /\ \A j \in keywords : i <= j
                /\ region = LOCATION_MAPPING[i][2]
           \/ /\ keywords = {}
              /\ \E i \in regions :
                   /\ \A j \in regions : i <= j
                   /\ region = REGIONS[i]
           \/ /\ keywords = {} /\ regions = {}
              /\ region = "Other NZ"

\* what get_region of nz_locations.py answers for some of the locations
KnownRegions ==
  { <<"123 Queen St, Auckland CBD", "Auckland">>, <<"Frankton, Hamilton", "Hamilton">>,
    <<"Frankton", "Queenstown">>, <<"Richmond", "Nelson">>, <<"Lower Hutt", "Wellington">>,
    <<"  WELLINGTON ", "Wellington">>, <<"Other NZ", "Other NZ">>,
    <<"Napier-Hastings", "Napier-Hastings">>, <<"Nelson Bays", "Nelson">>,
    <<"South Canterbury", "Christchurch">>,
    <<"somewhere with no match", "Other NZ">>, <<"", "Other NZ">>, <<None, "Other NZ">> }

\* C16: get_region(location) answers the region of the first keyword, in the
\* order of LOCATION_MAPPING, whose lowercase form is part of the lowercased
\* location; with no such keyword the first name of REGIONS that is part of
\* the location; and else, as for an empty or missing location, "Other NZ".
C16_FirstMatchWins ==
  last.name = "get_region" =>
    /\ FirstMatch(last.location, last.region)
    /\ \A p \in KnownRegions : p[1] = last.location => p[2] = last.region

\* a location with two keywords of different regions got the region of the
\* first of them; so did, in other calls, a location without keyword and an
\* empty one
C16_Witness ==
  /\ last.name = "get_region"
  /\ last.location = "Frankton, Hamilton" /\ last.region = "Hamilton"
  /\ \E i, j \in KeywordsIn(last.location) :
       i < j /\ LOCATION_MAPPING[i][2] # LOCATION_MAPPING[j][2]
  /\ <<"somewhere with no match", "Other NZ">> \in last.calls

-----------------------------------------------------------------------------
(* Fields kept by all operations, checked under SpecAll *)

\* the row of the store that has r0's id, r0 being a row of the store before
\* the last operation
Kept(r0, r) == r0 \in last.pre /\ r \in jobs /\ r.id = r0.id

\* the rows the last operation added
Added == {r \in jobs : r.id \notin Ids(last.pre)}

\* the card at place i of the last pass was observed: it has a url and its
\* loop body ran to its end without a store error
Observed(i) ==
  /\ i \in last.processed /\ i \notin last.failed
  /\ last.page_jobs[i].url # None

\* the last pass wrote a longer description into a row it had stored
Backfilled(r0, r) ==
  /\ IsPass /\ Kept(r0, r)
  /\ r.description # r0.description

\* C18: first_seen of a stored record is the time of its insert and is
\* changed by no upsert, scrape-pass update, description backfill, sweep or
\* other operation; last_seen is set to the current time by every
\* observation and is never earlier than first_seen.
C18_FirstSeenImmutable ==
  /\ \A r0 \in last.pre : \A r \in jobs : r.id = r0.id => r.first_seen = r0.first_seen
  /\ Online => \A r \in Added : r.first_seen = last.at
  /\ \A r \in jobs : r.first_seen <= r.last_seen
  /\ UpsertDone => \E r \in jobs : SameJob(r, last.job) /\ r.last_seen = last.at
  /\ IsPass =>
       \A i \in 1..Len(last.page_jobs) : Observed(i) =>
         \E r \in jobs :
           /\ r.last_seen = last.at
           /\ \/ r.url = last.page_jobs[i].url
              \/ /\ r.title = last.page_jobs[i].title
                 /\ r.company = last.page_jobs[i].company
                 /\ r.location = last.page_jobs[i].location

\* a pass backfilled the description of a row first seen earlier: the row
\* keeps its first_seen and carries the time of the pass as last_seen
C18_Witness ==
  \E r0 \in last.pre : \E r \in jobs :
    /\ Backfilled(r0, r)
    /\ Len(r.description) > Len(r0.description)
    /\ r.first_seen = r0.first_seen /\ r.first_seen < last.at
    /\ r.last_seen = last.at

\* C19: is_active is never false: every stored record is active in every
\* reachable state, a record that upsert or the scrape pass inserts or
\* refreshes is active, and no upsert, backfill, sweep or triage turns an
\* active record inactive.
C19_AlwaysActive ==
  /\ \A r \in jobs : r.is_active = TRUE
  /\ Online => \A r \in Written : r.is_active = TRUE
  /\ \A r0 \in last.pre : \A r \in jobs : (r.id = r0.id /\ r0.is_active) => r.is_active

\* a pass refreshed a stored row and inserted a new one, after a triage with
\* status "no"; all are active
C19_Witness ==
  /\ IsPass /\ ~last.err
  /\ last.prior.name = "update_triage" /\ last.prior.ret
  /\ \E r \in Written : r.id \in Ids(last.pre) /\ r.is_active /\ r.triage_status = "no"
  /\ \E r \in Added : r.is_active

\* C20: no upsert, scrape-pass update, description backfill or sweep changes
\* the triage_status of a record that stays stored; only update_triage
\* changes it, for the record of the given id and to a status it accepts; a
\* record that upsert or the scrape pass inserts has triage_status null.
C20_TriageUntouched ==
  /\ last.name # "update_triage" =>
       \A r0 \in last.pre : \A r \in jobs :
         r.id = r0.id => r.triage_status = r0.triage_status
  /\ last.name = "update_triage" =>
       \A r0 \in last.pre : \A r \in jobs :
         r.id = r0.id =>
           IF r.id = last.job_id /\ last.status \in TriageStatuses
             THEN r = [r0 EXCEPT !.triage_status = last.status]
             ELSE r = r0
  /\ Online => \A r \in Added : r.triage_status = None

\* a pass backfilled the description of a triaged row, which kept its triage
C20_Witness ==
  \E r0 \in last.pre : \E r \in jobs :
    /\ Backfilled(r0, r)
    /\ r0.triage_status = "yes" /\ r.triage_status = "yes"
    /\ r.last_seen = last.at

-----------------------------------------------------------------------------
(* Two producers in insert_or_update_job at the same time.  Each store call *)
(* (a lookup, the update, the insert) is one step; `last` keeps where each  *)
(* producer stands.                                                         *)

Producers == {"p1", "p2"}

\* candidates of the producers: two of one content under two urls, and one
\* whose url row 10 has
RaceCandidates ==
  { Job("n", "Baker", "Cafe N", "Nelson", DescX),
    Job("p", "Baker", "Cafe N", "Nelson", DescY),
    Job("a", "Cook", "Cafe X", "Wellington", DescX) }

\* a producer before its call
Idle == [pc |-> "idle", job |-> NoJob, hit |-> {}, ret |-> FALSE, err |-> FALSE]

\* the record of the producers' state after a step on the store `jobs`
Race(procs) ==
  Op("producers", NoJob, FALSE, FALSE, FALSE, <<>>, 0, {}) @@ [procs |-> procs]

InitRace ==
  /\ jobs \in BatchStores
  /\ nextId = Id0
  /\ now = Clock0
  /\ last = [name |-> "producers", job |-> NoJob, ret |-> FALSE, err |-> FALSE,
             pre |-> {}, at |-> 0, dry_run |-> FALSE, duplicate_groups |-> <<>>,
             total_removed |-> 0, deleted |-> {}, prior |-> NoOp]
            @@ [procs |-> [p \in Producers |-> Idle]]

\* the producer p is called with the candidate `job` (line 48)
call(p, job) ==
  /\ last.procs[p].pc = "idle"
  /\ last' = Race([last.procs EXCEPT ![p] = [Idle EXCEPT !.pc = "lookup_url", !.job = job]])
  /\ UNCHANGED <<jobs, nextId, now>>

\* step 1, the lookup of lines 58-60
lookup_url(p) ==
  /\ last.procs[p].pc = "lookup_url"
  /\ LET hit == existing(jobs, last.procs[p].job)
     IN  last' = Race([last.procs EXCEPT
                         ![p].pc = IF hit # {} THEN "update_url" ELSE "lookup_duplicates",
                         ![p].hit = hit])
  /\ UNCHANGED <<jobs, nextId, now>>

\* step 2, the lookup of lines 72-76 and the loop of lines 81-85: the
\* producer goes on to update a duplicate it found, or to insert
lookup_duplicates(p) ==
  /\ last.procs[p].pc = "lookup_duplicates"
  /\ LET found == duplicates(jobs, last.procs[p].job)
     IN  \/ /\ found = {}
            /\ last' = Race([last.procs EXCEPT ![p].pc = "insert"])
         \/ \E dup \in found :
              last' = Race([last.procs EXCEPT ![p].pc = "update_duplicate", ![p].hit = {dup}])
  /\ UNCHANGED <<jobs, nextId, now>>

\* the updates of lines 62-65 (by url) and 86-89 (by id), on the rows that
\* are stored now
update(p) ==
  /\ last.procs[p].pc \in {"update_url", "update_duplicate"}
  /\ Running
  /\ jobs' = Touch(jobs,
                   IF last.procs[p].pc = "update_url"
                     THEN existing(jobs, last.procs[p].job)
                     ELSE {r \in jobs : r.id \in Ids(last.procs[p].hit)},
                   now)
  /\ last' = Race([last.procs EXCEPT ![p].pc = "done", ![p].ret = FALSE])
  /\ now' = now + 1
  /\ UNCHANGED nextId

\* mutant: the insert looks the candidate up once more
insert_rows_Checked(rows, job, id, t) ==
  IF existing(rows, job) # {} \/ duplicates(rows, job) # {} THEN rows
  ELSE rows \cup {NewRow(id, job, t)}

\* the store after the insert of lines 99-112
insert_rows(rows, job, id, t) == rows \cup {NewRow(id, job, t)}

insert(p) ==
  /\ last.procs[p].pc = "insert"
  /\ Running
  /\ jobs' = insert_rows(jobs, last.procs[p].job, nextId, now)
  /\ nextId' = nextId + 1
  /\ last' = Race([last.procs EXCEPT ![p].pc = "done", ![p].ret = TRUE])
  /\ now' = now + 1

\* a store call of p raises: the except clause of lines 117-119 returns False
raise(p) ==
  /\ last.procs[p].pc \notin {"idle", "done"}
  /\ last' = Race([last.procs EXCEPT ![p].pc = "done", ![p].ret = FALSE, ![p].err = TRUE])
  /\ UNCHANGED <<jobs, nextId, now>>

NextRace ==
  \/ \E p \in Producers : \E job \in RaceCandidates : call(p, job)
  \/ \E p \in Producers : lookup_url(p)
  \/ \E p \in Producers : lookup_duplicates(p)
  \/ \E p \in Producers : update(p)
  \/ \E p \in Producers : insert(p)
  \/ \E p \in Producers : raise(p)

SpecRace == InitRace /\ [][NextRace]_vars

\* the candidates j1 and j2 denote the same job
SameCandidate(j1, j2) ==
  \/ j1.url = j2.url
  \/ /\ j1.title = j2.title /\ j1.company = j2.company /\ j1.location = j2.location
     /\ First200(j1.description) = First200(j2.description)

\* the stored rows that are the job of the candidate
RowsOf(job) == Matches(jobs, job)

\* both producers have returned, each having inserted
BothInserted ==
  /\ last.name = "producers"
  /\ \A p \in Producers : last.procs[p].pc = "done" /\ last.procs[p].ret
  /\ SameCandidate(last.procs["p1"].job, last.procs["p2"].job)

\* C21: lookup and write are not one step: when two producers with
\* candidates of the same job, not yet stored, both finish their lookups
\* before either inserts, both insert, and two records of that job are
\* stored; no lock or transaction keeps a producer from inserting after the
\* other has.
C21_RaceInsertsTwice ==
  BothInserted =>
    /\ Cardinality(RowsOf(last.procs["p1"].job)) >= 2
    /\ \E r1, r2 \in jobs :
         /\ r1.id # r2.id
         /\ JobOf(r1) = last.procs["p1"].job /\ JobOf(r2) = last.procs["p2"].job
         /\ r1.first_seen >= Clock0 /\ r2.first_seen >= Clock0

\* two producers with one content under two urls, the job stored nowhere
\* before, have both inserted: the store holds a duplicate group the
\* sequential upsert would not have made
C21_Witness ==
  /\ BothInserted
  /\ last.procs["p1"].job.url # last.procs["p2"].job.url
  /\ ~last.procs["p1"].err /\ ~last.procs["p2"].err
  /\ Cardinality(RowsOf(last.procs["p1"].job)) = 2
  /\ \A r \in RowsOf(last.procs["p1"].job) : r.first_seen >= Clock0
  /\ DuplicateGroups(jobs) # {}

-----------------------------------------------------------------------------
(* The plan of the dry run against the run that deletes *)

\* the total the dry run prints (line 162): the entries that would be removed
WouldRemove(duplicate_groups) == Len(Deletes(duplicate_groups))

\* what the run prints for each group: the id it keeps and the ids it removes
Report(duplicate_groups) ==
  {<<keep_id(duplicate_groups[i]), Range(remove_ids(duplicate_groups[i]))>> :
     i \in 1..Len(duplicate_groups)}

\* no two members of a duplicate group of the store were first seen at the
\* same time
NoTies(rows) ==
  \A g \in DuplicateGroups(rows) : \A r, q \in g : r.first_seen = q.first_seen => r = q

\* a step in which remove_duplicates(dry_run=False) runs to its end right
\* after remove_duplicates(dry_run=True), on the store the dry run left
CommitAfterPlan ==
  /\ last.name = "remove_duplicates" /\ last.dry_run
  /\ last'.name = "remove_duplicates" /\ ~last'.dry_run /\ ~last'.err
  /\ now' = now + 1

-----------------------------------------------------------------------------
(* The page loop of scrape_search_results (lines 836-1063) *)

\* max_pages arguments tried, and the page passes after which the site is no
\* longer followed
MaxPages == MaxOps
MaxScraped == MaxPages + 2

\* what the site does when the loop tries to reach the next page
\* (lines 911-1059): a next button is clicked; no button is clicked and the
\* page opened by URL shows jobs, or shows none; or the driver raises
SiteBehaviours == {"clicked", "direct_jobs", "direct_empty", "error"}

\* the loop's locals: where it stands, page, max_pages, the passes of the body
\* made so far and total_jobs
Loop(pc, page, max_pages, scraped, total_jobs) ==
  [pc |-> pc, page |-> page, max_pages |-> max_pages, scraped |-> scraped,
   total_jobs |-> total_jobs]

Pages(loop) ==
  Op("scrape_search_results", NoJob, FALSE, loop.pc = "raised", FALSE, <<>>, 0, {})
    @@ [loop |-> loop]

InitPages ==
  /\ jobs \in BatchStores
  /\ nextId = Id0
  /\ now = Clock0
  /\ last = [name |-> "scrape_search_results", job |-> NoJob, ret |-> FALSE,
             err |-> FALSE, pre |-> {}, at |-> 0, dry_run |-> FALSE,
             duplicate_groups |-> <<>>, total_removed |-> 0, deleted |-> {},
             prior |-> NoOp]
            @@ [loop |-> Loop("entry", 0, 0, 0, 0)]

\* lines 806-837: the first page is loaded, page = 1, total_jobs = 0
enter(max_pages) ==
  /\ last.loop.pc = "entry"
  /\ last' = Pages(Loop("while", 1, max_pages, 0, 0))
  /\ UNCHANGED <<jobs, nextId, now>>

\* line 1061
next_page(page) == page + 1

\* lines 839-909: the loop test holds; the page on screen is scraped and its
\* cards are stored; on the last page the counter is increased (line 1061)
scrape_page_pass(page_jobs, details, fail) ==
  /\ last.loop.pc = "while"
  /\ last.loop.page <= last.loop.max_pages
  /\ last.loop.scraped < MaxScraped
  /\ \E st \in scrape_page_run(jobs, nextId, page_jobs, details, fail, now) :
       /\ jobs' = st.jobs
       /\ nextId' = st.nextId
       /\ last' = Pages(
            IF st.raised
            THEN [last.loop EXCEPT !.pc = "raised", !.scraped = @ + 1]
            ELSE IF last.loop.page < last.loop.max_pages
            THEN [last.loop EXCEPT !.pc = "paginate", !.scraped = @ + 1,
                                   !.total_jobs = @ + Len(page_jobs)]
            ELSE [last.loop EXCEPT !.page = next_page(@), !.scraped = @ + 1,
                                   !.total_jobs = @ + Len(page_jobs)])
  /\ now' = now + 1

\* lines 911-1061: a clicked button falls through to page += 1 (line 1061);
\* a page opened by URL that shows jobs takes `continue` (line 1052), which
\* goes back to the loop test past line 1061; no jobs (line 1055) or an
\* exception (line 1059) takes `break`
paginate_to(loop, site) ==
  CASE site = "clicked" -> [loop EXCEPT !.pc = "while", !.page = next_page(@)]
    [] site = "direct_jobs" -> [loop EXCEPT !.pc = "while"]
    [] OTHER -> [loop EXCEPT !.pc = "break"]

paginate(site) ==
  /\ last.loop.pc = "paginate"
  /\ last' = Pages(paginate_to(last.loop, site))
  /\ UNCHANGED <<jobs, nextId, now>>

\* line 1063, reached when the loop test fails or after a break
return ==
  /\ \/ last.loop.pc = "while" /\ last.loop.page > last.loop.max_pages
     \/ last.loop.pc = "break"
  /\ last' = Pages([last.loop EXCEPT !.pc = "returned"])
  /\ UNCHANGED <<jobs, nextId, now>>

NextPages ==
  \/ \E max_pages \in 1..MaxPages : enter(max_pages)
  \/ \E run \in PageRuns : \E fail \in Failures(run.page_jobs) :
       scrape_page_pass(run.page_jobs, run.details, fail)
  \/ \E site \in SiteBehaviours : paginate(site)
  \/ return

SpecPages == InitPages /\ [][NextPages]_vars

\* C23: scrape_search_results(max_pages=N) makes at most N page passes, and
\* every pagination that goes back to the loop test has increased the page
\* counter, the one that opened the next page by URL and found jobs included.
C23_PaginationBounded ==
  [][/\ last'.loop.scraped <= last'.loop.max_pages
     /\ (last.loop.pc = "paginate" /\ last'.loop.pc = "while")
          => last'.loop.page = last.loop.page + 1]_vars

-----------------------------------------------------------------------------
(* The order of the table *)

\* the pairs written in the table whose keyword is the location
WrittenFor(location) ==
  {i \in 1..Len(LocationPairs) : LocationPairs[i][1] = location}

\* C24: get_region of a keyword written in LOCATION_MAPPING returns the
\* region written with that keyword, for every pair of the table: no pair is
\* shadowed by an earlier keyword contained in it and none is overridden by
\* a later pair with the same keyword.
C24_TableOrder ==
  last.name = "get_region" =>
    \A i \in WrittenFor(last.location) : last.region = LocationPairs[i][2]

-----------------------------------------------------------------------------
(* The description backfill *)

\* existing_desc (line 857)
TextLen(description) == IF description = None THEN 0 ELSE Len(description)

\* the full descriptions scrape_job_details gave the last pass for the url
ScrapedFor(url) ==
  {last.details[i] : i \in {k \in 1..Len(last.page_jobs) : last.page_jobs[k].url = url}}

\* C25: in a scrape pass the description of a row stored before the pass is
\* replaced only when backfill was needed (stored description shorter than
\* 500 characters, ending with "..." or containing "Description not
\* available") and then by a full description scraped for its url that is
\* strictly longer; otherwise only last_seen and is_active of the row change.
\* The length of a stored description does not decrease in a pass and no row
\* is inserted for a url that was stored.
C25_BackfillMonotone ==
  IsPass =>
    /\ \A r0 \in last.pre : \E r \in jobs :
         /\ r.id = r0.id
         /\ TextLen(r.description) >= TextLen(r0.description)
         /\ IF r.description # r0.description
              THEN /\ needs_backfill(IF r0.description = None THEN "" ELSE r0.description)
                   /\ r.description \in ScrapedFor(r0.url)
                   /\ Len(r.description) > TextLen(r0.description)
                   /\ r = [r0 EXCEPT !.description = r.description, !.last_seen = last.at,
                                     !.is_active = TRUE]
              ELSE r = r0 \/ r = [r0 EXCEPT !.last_seen = last.at, !.is_active = TRUE]
    /\ \A r \in Added : \A r0 \in last.pre : r.url # r0.url
    /\ \A r, q \in Added : r.url = q.url => r = q

\* the second of two passes found the row of url "a" with a description
\* shorter than 500 characters and gave it the 523-character one that was
\* scraped for it
C25_Witness ==
  /\ IsPass /\ ~last.err
  /\ \E r0 \in last.pre : \E r \in jobs :
       /\ Backfilled(r0, r)
       /\ r0.url = "a" /\ r.description = DescFull
       /\ needs_backfill(r0.description)
  /\ last.prior.name = "scrape_search_results"

-----------------------------------------------------------------------------
(* Upserts and duplicate groups *)

\* title, company and location of the candidate are given
Keyed(job) == job.title # None /\ job.company # None /\ job.location # None

\* C26: a sequential insert_or_update_job call with a candidate whose title,
\* company and location are non-null, made on a store without duplicate
\* groups (the empty store included), leaves a store without duplicate
\* groups: no two records share (title, company, location, first 200
\* description characters), so a sweep run at any point of a sequence of
\* such calls finds no group.
C26_UpsertKeepsDuplicateFree ==
  [][(/\ last'.name = "insert_or_update_job" /\ now' = now + 1
      /\ Keyed(last'.job)
      /\ DuplicateGroups(jobs) = {})
       => /\ DuplicateGroups(jobs') = {}
          /\ FetchGroups(jobs') = {<<>>}
          /\ \A r, q \in Grouped(jobs') : GroupKey(r) = GroupKey(q) => r = q]_vars

\* the second of two upserts on a store without duplicate groups: the first
\* inserted its candidate, the second brought the same job under another
\* url and was merged into a stored row; the store has no duplicate group
C26_Witness ==
  /\ last.name = "insert_or_update_job" /\ ~last.ret /\ ~last.err
  /\ last.prior.name = "insert_or_update_job" /\ last.prior.ret
  /\ Keyed(last.job) /\ Keyed(last.prior.job)
  /\ DuplicateGroups(last.pre) = {} /\ DuplicateGroups(jobs) = {}
  /\ \A r \in last.pre : r.url # last.job.url
  /\ \E r \in jobs :
       /\ GroupKey(r) = <<last.job.title, last.job.company, last.job.location,
                          SUBSTR_description(last.job.description)>>
       /\ r.last_seen = last.at
  /\ Cardinality(jobs) = Cardinality(last.pre)
  /\ Cardinality(jobs) >= 2

-----------------------------------------------------------------------------
(* Scrape passes and duplicate groups *)

\* the stores the passes start from: those of the batch and the store of
\* the one row of url "b"
PassStores == BatchStores \cup {{r \in SeedRows : r.id = 11}}

InitPasses ==
  /\ Init
  /\ jobs \in PassStores

NextPasses ==
  \E run \in PageRuns : \E fail \in Failures(run.page_jobs) :
    scrape_search_results(run.page_jobs, run.details, fail)

SpecPasses == InitPasses /\ [][NextPasses]_vars

\* C27: a scrape pass on a store without duplicate groups leaves a store
\* without duplicate groups: no two records share (title, company, location,
\* first 200 description characters).
C27_PassKeepsDuplicateFree ==
  [][(/\ last'.name = "scrape_search_results" /\ now' = now + 1
      /\ DuplicateGroups(jobs) = {})
       => DuplicateGroups(jobs') = {}]_vars

-----------------------------------------------------------------------------
(* The urls of the store *)

\* no two rows of the store have the same url
UrlsDistinct(rows) == \A r, q \in rows : r.url = q.url => r = q

\* C28: a sequential insert_or_update_job call or CSV import (of a file that
\* repeats a url too) on a store whose urls are all distinct leaves a store
\* whose urls are all distinct, and the url of a stored record is the same
\* after the operation as before; the other operations keep both as well.
C28_UrlsStayDistinct ==
  [][UrlsDistinct(jobs) =>
       /\ UrlsDistinct(jobs')
       /\ \A r \in jobs : \A q \in jobs' : q.id = r.id => q.url = r.url]_vars

\* a file that names url "k" twice was imported after an upsert had inserted
\* a row: one row of url "k" was written, the second line was skipped, and
\* the url of the upserted row is in the store once
C28_Witness ==
  /\ last.name = "import_csv_to_db"
  /\ Len(last.csv_rows) = 2 /\ last.csv_rows[1].url = last.csv_rows[2].url
  /\ last.imported = 1 /\ last.skipped = 1
  /\ Cardinality({r \in jobs : r.url = last.csv_rows[1].url}) = 1
  /\ last.prior.name = "insert_or_update_job" /\ last.prior.ret
  /\ Cardinality({r \in jobs : r.url = last.prior.job.url}) = 1
  /\ UrlsDistinct(last.pre) /\ UrlsDistinct(jobs)

-----------------------------------------------------------------------------
(* What a sweep leaves alone *)

\* the (title, company, location, description prefix) keys present in a store
Keys(rows) == {GroupKey(r) : r \in rows}

\* C29: a sweep, run by either script or by main, deletes only members of
\* duplicate groups whose group keeps another member; every record of the
\* store after the sweep is a record of the store before it, field by field;
\* no record with a null title, company or location is deleted; and the set
\* of distinct (title, company, location, description prefix) keys of the
\* store is the same before and after.
C29_SweepFrame ==
  SweepRan =>
    /\ jobs \subseteq last.pre
    /\ \A r \in last.pre \ jobs :
         /\ r.title # None /\ r.company # None /\ r.location # None
         /\ r.id \in last.deleted
         /\ \E g \in DuplicateGroups(last.pre) : r \in g /\ (g \ {r}) \cap jobs # {}
    /\ Keys(jobs) = Keys(last.pre)

\* a sweep that deleted rows 11 and 12 of the group of row 10 on a store that
\* also held a record without a title: that record and row 10 are still
\* there and the keys are those of before
C29_Witness ==
  /\ IsSweep(last) /\ ~last.dry_run /\ ~last.err
  /\ last.deleted = {11, 12}
  /\ \E r \in jobs : r.title = None
  /\ \E r \in jobs : r.id = 10 /\ r \in last.pre
  /\ Cardinality(jobs) = Cardinality(last.pre) - 2
  /\ Keys(jobs) = Keys(last.pre)

-----------------------------------------------------------------------------
(* audit_database.py: CHECK 2 after a sweep *)

\* CHECK 2 (lines 57-68): WHERE title IS NOT NULL AND company IS NOT NULL,
\* GROUP BY title, company, location, SUBSTR(description, 1, 200),
\* HAVING count > 1; GROUP BY puts the rows of a NULL location together
content_dupes(rows) ==
  LET audited == {r \in rows : r.title # None /\ r.company # None}
  IN  {g \in {{q \in audited : GroupKey(q) = GroupKey(r)} : r \in audited} :
         Cardinality(g) > 1}

\* the files imported before an audit: the second has no location column
AuditFiles ==
  { <<Job("k", "Cook", "Cafe X", "Wellington", DescX),
      Job("m", "Cook", "Cafe X", "Wellington", DescX)>>,
    <<Job("k", "Cook", "Cafe Z", None, DescX),
      Job("m", "Cook", "Cafe Z", None, DescX)>> }

\* audit_database(): SELECT statements only; the store is not written
audit_database ==
  /\ last.name # "audit_database"
  /\ last' = Op("audit_database", NoJob, FALSE, FALSE, FALSE, <<>>, 0, {})
               @@ [content_dupes |-> content_dupes(jobs)]
  /\ UNCHANGED <<jobs, nextId, now>>

InitAudit ==
  /\ Init
  /\ jobs \in BatchStores

NextAudit ==
  \/ \E csv_rows \in AuditFiles : \E fail \in 0..Len(csv_rows) :
       import_csv_to_db(csv_rows, fail)
  \/ \E dry_run \in BOOLEAN : remove_duplicates(dry_run)
  \/ remove_duplicates_simple
  \/ audit_database

SpecAudit == InitAudit /\ [][NextAudit]_vars

\* the audit ran right after a sweep that deleted and committed
AuditAfterSweep ==
  /\ last.name = "audit_database"
  /\ last.prior.name \in {"remove_duplicates", "remove_duplicates_simple"}
  /\ ~last.prior.dry_run /\ ~last.prior.err

\* C30: right after a completed non-dry-run sweep CHECK 2 of the audit
\* finds no group, on any store; the audit leaves the store as it is.
C30_AuditAgreesWithSweep ==
  /\ AuditAfterSweep => last.content_dupes = {}
  /\ last.name = "audit_database" => jobs = last.pre

=============================================================================
